---- MODULE Spec2Model ----
(***************************************************************************)
(* GreenCloud Advisor: the recommendation pipeline of                      *)
(* src/greencloud_advisor.py together with the collaborators it calls      *)
(* (src/aws_regions_fetcher.py, src/src/aws_live_checker.py,               *)
(* src/src/carbon_intensity_fetcher.py).                                   *)
(*                                                                         *)
(* One behaviour is one process: the advisor is constructed (the region    *)
(* catalog is fetched), recommend_region is called once, and the call runs *)
(* to its end.  Every external request (describe_regions, the boto3        *)
(* availability requests, the ElectricityMaps request) is one step whose   *)
(* response is chosen nondeterministically.                                *)
(*                                                                         *)
(* Further specifications over the same variables: get_aws_regions called  *)
(* repeatedly and by several threads, find_nearby_regions and              *)
(* filter_by_services as functions of their arguments, the static checker  *)
(* of src/src/aws_service_checker.py, and the region analysis of           *)
(* src/streamlit_app.py.                                                   *)
(*                                                                         *)
(* Units.  Coordinates are whole degrees.  Distances are metres.           *)
(* Carbon readings are g/kWh as delivered by the API; intensities and the  *)
(* unrounded score are held in 10^-5 kg/kWh, the rounded score in          *)
(* 10^-3 kg/kWh (round(x, 3)).  Region codes are the naturals              *)
(* 1..MaxRegions, k standing for the k-th code in lexicographic order, so  *)
(* that < on codes is the string order Python would use.                   *)
(***************************************************************************)
EXTENDS Integers, Sequences, FiniteSets, TLC

\* ------------------------------------------------------------------ bounds
MaxRegions == 2
MaxServices == 2
\* Threads that call get_aws_regions, and calls each of them makes.
MaxCallers == 2
MaxCalls == 4

\* --------------------------------------------------------------- constants
\* 6371 km * pi / 180, in metres: the length of one degree of a great circle.
MetresPerDegree == 111195
\* weight_market = 0.7, in tenths.
WeightMarketTenths == 7
\* market_based = carbon_intensity * 0.7, in tenths.
MarketReductionTenths == 7
\* data.get("carbonIntensity", 400)
DefaultCarbonIntensity == 400

\* ------------------------------------------------------------ input samples
RegionCodes == 1..MaxRegions
Callers == 1..MaxCallers
\* User locations on the equator or the prime meridian, where the haversine
\* distance to a region at (0, 0) is linear in the angle.
\* (0, 400) is out of range (|longitude| > 180); the haversine formula
\* folds it onto (0, 40).
UserLocations == {<<0, 0>>, <<51, 0>>, <<0, 400>>}
MaxDistancesKm == {0, 6000}
\* Capability tokens, already lower-case and trimmed (lower().strip() leaves
\* them unchanged), as recommend_region is given them: a check that fails
\* open, one that fails closed, and a token the live checker does not know.
ServiceTokens == {"ec2 g5.xlarge", "eks", "dynamodb"}
\* Tokens extract_services returns to the app: one whose check can fail,
\* one that is always available.
AppTokens == {"eks", "s3"}
\* Every token an availability check is made for.
KnownTokens == ServiceTokens \cup AppTokens
\* carbonIntensity readings in g/kWh: two that round to the same score, next
\* to the default of 400 a response without the field is read as.
CarbonReadings == {102, 103}

\* ----------------------------------------------------------------- helpers
Range(s) == {s[k] : k \in DOMAIN s}

Abs(x) == IF x < 0 THEN -x ELSE x

SeqsUpTo(S, n) == UNION {[1..m -> S] : m \in 0..n}

DistinctSeqsUpTo(S, n) ==
    {s \in SeqsUpTo(S, n) : \A a, b \in DOMAIN s : a # b => s[a] # s[b]}

\* Python's sorted()/list.sort(): ascending by key, stable.  keys[k] is the
\* key of seq[k].
StableSortByKeys(seq, keys) ==
    LET n == Len(seq)
        pos(k) == 1 + Cardinality({m \in 1..n :
                        keys[m] < keys[k] \/ (keys[m] = keys[k] /\ m < k)})
    IN  [p \in 1..n |-> seq[CHOOSE k \in 1..n : pos(k) = p]]

\* ------------------------------------------------- aws_regions_fetcher.py
\* Regions 50 degrees apart along the equator.
RegionDataSpread(c) == [code |-> c, location |-> <<0, 50 * (c - 1)>>]

\* RegionData(code, name, (0.0, 0.0)); the display name is left out.
RegionData(c) == [code |-> c, location |-> <<0, 0>>]

\* What ec2.describe_regions() can do: raise, or answer with a list of
\* distinct regions (possibly none).
DescribeRegionsRaises == [raised |-> TRUE, Regions |-> <<>>]
DescribeRegionsResponses ==
    {DescribeRegionsRaises} \cup
    {[raised |-> FALSE, Regions |-> s] : s \in DistinctSeqsUpTo(RegionCodes, MaxRegions)}

\* The list comprehension of get_aws_regions.
BuildRegions(response) ==
    [k \in 1..Len(response.Regions) |-> RegionData(response.Regions[k])]

\* ------------------------------------------------- greencloud_advisor.py
\* The angle of a great circle arc, folded the way 2*asin(sqrt(sin^2(d/2)))
\* folds it.
FoldDegrees(d) ==
    LET m == d % 360 IN IF m > 180 THEN 360 - m ELSE m

\* _calculate_distance for two points that share a meridian, or that both
\* lie on the equator.
CalculateDistance(loc1, loc2) ==
    LET dlat == Abs(loc2[1] - loc1[1])
        dlon == Abs(loc2[2] - loc1[2])
    IN  MetresPerDegree * (IF dlon = 0 THEN FoldDegrees(dlat) ELSE FoldDegrees(dlon))

WithinDistanceAlways(distance, max_km) == TRUE

WithinDistanceStrict(distance, max_km) == distance < max_km * 1000

\* if distance <= max_distance_km
WithinDistance(distance, max_km) == distance <= max_km * 1000

NearbyKeyNone(pair) == 0

\* key=lambda x: x[1], on a (region, distance) pair
NearbyKey(pair) == pair[2]

FindNearbyRegions(regs, loc, max_km) ==
    LET dist == [k \in 1..Len(regs) |-> CalculateDistance(loc, regs[k].location)]
        idx == SelectSeq([k \in 1..Len(regs) |-> k],
                         LAMBDA k : WithinDistance(dist[k], max_km))
        nearby == [k \in 1..Len(idx) |-> <<regs[idx[k]], dist[idx[k]]>>]
        sorted == StableSortByKeys(nearby,
                      [k \in 1..Len(nearby) |-> NearbyKey(nearby[k])])
    IN  [k \in 1..Len(sorted) |-> sorted[k][1]]

\* ------------------------------------------------- aws_live_checker.py
\* 'ec2' in service_name and any(x in service_name for x in ['g6', 'g5', ...])
IsEc2InstanceRequest(service) == service \in {"ec2 g5.xlarge", "ec2 g6.4xlarge"}

\* service_name in ['ec2', 's3', 'rds', 'lambda', 'ecs', 'eks', 'redshift']
IsBasicService(service) ==
    service \in {"ec2", "s3", "rds", "lambda", "ecs", "eks", "redshift"}

\* 'rds' in service_name and any(x in service_name for x in ['aurora', ...])
IsRdsEngineRequest(service) == service \in {"rds mysql", "rds aurora", "rds postgres"}

\* Whether the check of this token sends a boto3 request at all.
MakesRequest(service) ==
    \/ IsEc2InstanceRequest(service)
    \/ service \in {"rds", "eks", "redshift"}
    \/ (~IsBasicService(service) /\ IsRdsEngineRequest(service))

\* What the boto3 request behind a token can do: answer with a non-empty
\* listing ("listed"), answer with an empty listing ("empty"), or raise
\* ("error").  list_clusters / describe_clusters only complete ("ok") or raise.
BotoResponses(service) ==
    IF ~MakesRequest(service) THEN {"norequest"}
    ELSE IF service \in {"eks", "redshift"} THEN {"ok", "error"}
    ELSE {"listed", "empty", "error"}

CheckEc2InstanceAvailability(response) ==
    IF response = "error" THEN TRUE ELSE response = "listed"

CheckBasicServiceAvailability(service, response) ==
    IF service \in {"s3", "lambda", "ec2"} THEN TRUE
    ELSE IF service = "rds"
         THEN (IF response = "error" THEN TRUE ELSE response = "listed")
    ELSE IF service \in {"eks", "redshift"} THEN response # "error"
    ELSE TRUE

CheckRdsEngineAvailability(response) ==
    IF response = "error" THEN TRUE ELSE response = "listed"

CheckAwsServiceAvailabilityLive(service, response) ==
    IF IsEc2InstanceRequest(service) THEN CheckEc2InstanceAvailability(response)
    ELSE IF IsBasicService(service) THEN CheckBasicServiceAvailability(service, response)
    ELSE IF IsRdsEngineRequest(service) THEN CheckRdsEngineAvailability(response)
    ELSE TRUE

\* ------------------------------------------------- greencloud_advisor.py
\* GreenCloudAdvisor.check_service_availability: the live checker catches
\* every exception itself, so the except branch here adds nothing.
CheckServiceAvailability(service, response) ==
    CheckAwsServiceAvailabilityLive(service, response)

AllOverEmptyFalse == FALSE

\* all(...) over no element: an empty required_services.
AllOverEmpty == TRUE

\* Only the last check decides.
GateDecisionLastOnly(available, k, n) ==
    IF k < n THEN "continue" ELSE IF available THEN "accept" ELSE "reject"

GateDecisionAny(available, k, n) ==
    IF available THEN "accept" ELSE IF k = n THEN "reject" ELSE "continue"

\* all(check_service_availability(region.code, service) for service in
\* required_services), one element at a time: the k-th of n checks.
GateDecision(available, k, n) ==
    IF ~available THEN "reject" ELSE IF k = n THEN "accept" ELSE "continue"

\* The all(...) of filter_by_services for one region, from the k-th service
\* on, when answers[code][service] is what the boto3 request answers.
RECURSIVE GateFrom(_, _, _, _)
GateFrom(code, services, answers, k) ==
    LET decision ==
            GateDecision(CheckServiceAvailability(services[k],
                                                  answers[code][services[k]]),
                         k, Len(services))
    IN  IF decision = "continue"
        THEN GateFrom(code, services, answers, k + 1)
        ELSE decision = "accept"

\* filter_by_services as a function of its arguments and the answers.
FilterByServices(regs, services, answers) ==
    SelectSeq(regs, LAMBDA r : IF services = <<>> THEN AllOverEmpty
                               ELSE GateFrom(r.code, services, answers, 1))

\* ------------------------------------------------- carbon_intensity_fetcher.py
\* What the ElectricityMaps request can do: fail (any exception), answer
\* without a carbonIntensity field, or answer with a reading.
IntensityFailed == [status |-> "failed", carbonIntensity |-> 0]
IntensityNoReading == [status |-> "no_reading", carbonIntensity |-> 0]
IntensityNotFetched == [status |-> "unfetched", carbonIntensity |-> 0]
IntensityResponses ==
    {IntensityFailed, IntensityNoReading} \cup
    {[status |-> "ok", carbonIntensity |-> g] : g \in CarbonReadings}

\* One requests.get per get_live_carbon_intensity call.
RequestsPerFetch == 1

\* get_live_carbon_intensity on a response that did not fail:
\* (location_based, market_based) in 10^-5 kg/kWh.
GetLiveCarbonIntensity(response) ==
    LET carbon == IF response.status = "ok" THEN response.carbonIntensity
                  ELSE DefaultCarbonIntensity
        location_based == carbon * 100
    IN  <<location_based, (location_based * MarketReductionTenths) \div 10>>

\* ------------------------------------------------- greencloud_advisor.py
\* market_based * weight_market + location_based * (1 - weight_market),
\* in 10^-5 kg/kWh.
FormulaScore(location_based, market_based) ==
    (market_based * WeightMarketTenths
        + location_based * (10 - WeightMarketTenths)) \div 10

\* round(x, 3): from 10^-5 to 10^-3 kg/kWh, halves to the even neighbour.
Round3(x) ==
    LET q == x \div 100
        r == x % 100
    IN  IF r < 50 THEN q
        ELSE IF r > 50 THEN q + 1
        ELSE IF q % 2 = 0 THEN q ELSE q + 1

\* One element of scored_regions.
ScoredEntry(region, response) ==
    LET ci == GetLiveCarbonIntensity(response)
    IN  [region_code |-> region.code,
         location_based_intensity |-> ci[1],
         market_based_intensity |-> ci[2],
         sustainability_score |-> Round3(FormulaScore(ci[1], ci[2]))]
\* (region_name, a display label looked up from the code, is left out.)

\* A sort that is not stable: entries with equal keys come out reversed.
SortByScoreTiesReversed(entries) ==
    LET n == Len(entries)
        rev == [k \in 1..n |-> entries[n + 1 - k]]
    IN  StableSortByKeys(rev, [k \in 1..n |-> rev[k].sustainability_score])

SortByScoreDescending(entries) ==
    StableSortByKeys(entries,
        [k \in 1..Len(entries) |-> 0 - entries[k].sustainability_score])

\* scored_regions.sort(key=lambda x: x["sustainability_score"])
SortByScore(entries) ==
    StableSortByKeys(entries,
        [k \in 1..Len(entries) |-> entries[k].sustainability_score])

RecommendedLast(sorted) == sorted[Len(sorted)]

\* "recommended_region": scored_regions[0]
RecommendedOf(sorted) == sorted[1]

AnalysisOfSwapped(regs, nearby, compatible) ==
    [total_regions_evaluated |-> Len(regs),
     nearby_regions_found |-> Len(compatible),
     service_compatible_regions |-> Len(nearby)]

\* The "analysis" dict of the ranked result.
AnalysisOf(regs, nearby, compatible) ==
    [total_regions_evaluated |-> Len(regs),
     nearby_regions_found |-> Len(nearby),
     service_compatible_regions |-> Len(compatible)]

ErrNoNearby == "No regions found within specified distance"
ErrNoCompatible == "No regions support all required services"

EarlyReturnSameMessage(stage) == [error |-> ErrNoCompatible]

\* The two early returns of recommend_region.
EarlyReturn(stage) ==
    [error |-> IF stage = "distance" THEN ErrNoNearby ELSE ErrNoCompatible]

VARIABLES
    pc,                 \* "start", "failed" (the constructor raised), "ready",
                        \* "filter", "score", "done" (recommend_region ended);
                        \* "analyzing", "app_done" in the app's analysis
    cached_regions,     \* aws_regions_fetcher._cached_regions
    regions,            \* GreenCloudAdvisor.regions
    user_location,      \* arguments of recommend_region
    required_services,
    max_distance_km,
    nearby_regions,     \* locals of recommend_region
    compatible_regions,
    scored_regions,
    i,                  \* index of the region being filtered or scored
    j,                  \* index of the service being checked
    oracle,             \* boto3 response per (region code, token), once asked
    verdict,            \* check_service_availability per (region code, token)
    intensity,          \* ElectricityMaps response per region code, once asked
    intensity_requests, \* ElectricityMaps requests sent so far, per region code
    fetch_log,          \* describe_regions requests so far: how many were
                        \* made, how many raised, how many answered no region
    callers,            \* per thread calling get_aws_regions: where it is and
                        \* how many calls it has finished
    returned,           \* the lists get_aws_regions has returned so far
    alt_services,       \* a second required_services list, and what
    alt_compatible,     \* filter_by_services returns for it
    outcome,            \* "none", "returned" or "raised"
    result,             \* the dict recommend_region returned
    static_call,        \* arguments of the static check_service_availability
    static_result,      \* <<>> before it returns, then <<its value>>
    region_codes,       \* streamlit_app: codes of the selected regions
    all_regions_data,   \* streamlit_app: the analysis loop's list
    session_state,      \* st.session_state: analysis_results, show_results
    display             \* what the results container shows

vars == <<pc, cached_regions, regions, user_location, required_services,
          max_distance_km, nearby_regions, compatible_regions, scored_regions,
          i, j, oracle, verdict, intensity, intensity_requests, fetch_log,
          callers, returned, alt_services, alt_compatible, outcome, result,
          static_call, static_result, region_codes, all_regions_data,
          session_state, display>>

\* What only the comparison of two filter_by_services calls uses.
gate_vars == <<alt_services, alt_compatible>>

\* What only the static checker of aws_service_checker.py uses.
static_vars == <<static_call, static_result>>

\* What only the region analysis of streamlit_app.py uses.
app_vars == <<region_codes, all_regions_data, session_state, display>>

\* The pipeline's variables, for the specifications that only call
\* get_aws_regions.
pipeline_vars == <<pc, regions, user_location, required_services,
                   max_distance_km, nearby_regions, compatible_regions,
                   scored_regions, i, j, oracle, verdict, intensity,
                   intensity_requests, outcome, result>>

\* No static check has been called.
StaticIdle ==
    /\ static_call = [region |-> "none", request |-> <<>>]
    /\ static_result = <<>>

\* The analyze button has not been clicked: the session state as lines
\* 110-113 initialise it, and the hint of line 653 on the page.
NoResults == [analysis_results |-> <<>>, stored |-> FALSE, show_results |-> FALSE]
ShowsHint == [shown |-> "hint", filtered_options |-> <<>>, best |-> <<>>]
AppIdle ==
    /\ region_codes = <<>>
    /\ all_regions_data = <<>>
    /\ session_state = NoResults
    /\ display = ShowsHint

\* fetch_log after one more describe_regions request.
Logged(log, response) ==
    [requests |-> log.requests + 1,
     raised |-> log.raised + (IF response.raised THEN 1 ELSE 0),
     empty |-> log.empty +
                 (IF ~response.raised /\ response.Regions = <<>> THEN 1 ELSE 0)]

Init ==
    /\ pc = "start"
    /\ cached_regions = <<>>
    /\ regions = <<>>
    /\ user_location = <<0, 0>>
    /\ required_services = <<>>
    /\ max_distance_km = 0
    /\ nearby_regions = <<>>
    /\ compatible_regions = <<>>
    /\ scored_regions = <<>>
    /\ i = 1
    /\ j = 1
    /\ oracle = [c \in RegionCodes |-> [s \in KnownTokens |-> "unasked"]]
    /\ verdict = [c \in RegionCodes |-> [s \in KnownTokens |-> "unchecked"]]
    /\ intensity = [c \in RegionCodes |-> IntensityNotFetched]
    /\ intensity_requests = [c \in RegionCodes |-> 0]
    /\ fetch_log = [requests |-> 0, raised |-> 0, empty |-> 0]
    /\ callers = [t \in Callers |-> [pc |-> "idle", calls |-> 0]]
    /\ returned = {}
    /\ alt_services = <<>>
    /\ alt_compatible = <<>>
    /\ outcome = "none"
    /\ result = <<>>
    /\ StaticIdle
    /\ AppIdle

\* GreenCloudAdvisor.__init__: get_aws_regions on an empty cache.
Construct ==
    /\ pc = "start"
    /\ \E response \in DescribeRegionsResponses :
         /\ fetch_log' = Logged(fetch_log, response)
         /\ IF response.raised
            THEN /\ pc' = "failed"
                 /\ outcome' = "raised"
                 /\ UNCHANGED <<cached_regions, regions>>
            ELSE /\ cached_regions' = BuildRegions(response)
                 /\ regions' = cached_regions'
                 /\ pc' = "ready"
                 /\ UNCHANGED outcome
    /\ UNCHANGED <<user_location, required_services, max_distance_km,
                   nearby_regions, compatible_regions, scored_regions,
                   i, j, oracle, verdict, intensity, intensity_requests,
                   callers, returned, result>>
    /\ UNCHANGED <<gate_vars, static_vars, app_vars>>

\* recommend_region up to the first availability check: find_nearby_regions,
\* the early return, and the filter over an empty required_services.
RecommendRegion ==
    /\ pc = "ready"
    /\ \E loc \in UserLocations, max_km \in MaxDistancesKm,
          services \in SeqsUpTo(ServiceTokens, MaxServices) :
         LET nearby == FindNearbyRegions(regions, loc, max_km) IN
         /\ user_location' = loc
         /\ max_distance_km' = max_km
         /\ required_services' = services
         /\ nearby_regions' = nearby
         /\ IF nearby = <<>>
            THEN /\ result' = EarlyReturn("distance")
                 /\ outcome' = "returned"
                 /\ pc' = "done"
                 /\ UNCHANGED compatible_regions
            ELSE IF services = <<>>
            THEN LET compatible == IF AllOverEmpty THEN nearby ELSE <<>> IN
                 /\ compatible_regions' = compatible
                 /\ IF compatible = <<>>
                    THEN /\ result' = EarlyReturn("services")
                         /\ outcome' = "returned"
                         /\ pc' = "done"
                    ELSE /\ pc' = "score"
                         /\ UNCHANGED <<result, outcome>>
            ELSE /\ pc' = "filter"
                 /\ UNCHANGED <<compatible_regions, result, outcome>>
    /\ UNCHANGED <<cached_regions, regions, scored_regions, i, j,
                   oracle, verdict, intensity, intensity_requests, fetch_log,
                   callers, returned>>
    /\ UNCHANGED <<gate_vars, static_vars, app_vars>>

\* One check_service_availability call of filter_by_services, with what
\* follows it up to the next call: the region is rejected, accepted or
\* checked further, and after the last region the stage returns.
CheckService ==
    /\ pc = "filter"
    /\ LET region == nearby_regions[i]
           service == required_services[j]
           asked == oracle[region.code][service]
       IN  \E response \in (IF asked = "unasked" THEN BotoResponses(service)
                            ELSE {asked}) :
           LET available == CheckServiceAvailability(service, response)
               decision == GateDecision(available, j, Len(required_services))
               compatible == IF decision = "accept"
                             THEN Append(compatible_regions, region)
                             ELSE compatible_regions
           IN  /\ oracle' = [oracle EXCEPT ![region.code][service] = response]
               /\ verdict' = [verdict EXCEPT ![region.code][service] =
                                 IF available THEN "yes" ELSE "no"]
               /\ compatible_regions' = compatible
               /\ IF decision = "continue"
                  THEN /\ j' = j + 1
                       /\ UNCHANGED <<i, pc, result, outcome>>
                  ELSE IF i < Len(nearby_regions)
                  THEN /\ i' = i + 1
                       /\ j' = 1
                       /\ UNCHANGED <<pc, result, outcome>>
                  ELSE /\ i' = 1
                       /\ j' = 1
                       /\ IF compatible = <<>>
                          THEN /\ result' = EarlyReturn("services")
                               /\ outcome' = "returned"
                               /\ pc' = "done"
                          ELSE /\ pc' = "score"
                               /\ UNCHANGED <<result, outcome>>
    /\ UNCHANGED <<cached_regions, regions, user_location, required_services,
                   max_distance_km, nearby_regions, scored_regions, intensity,
                   intensity_requests, fetch_log, callers, returned>>
    /\ UNCHANGED <<gate_vars, static_vars, app_vars>>

\* One iteration of the scoring loop; after the last region, the sort and
\* the returned dict.  A failed intensity request raises out of
\* recommend_region.
ScoreRegion ==
    /\ pc = "score"
    /\ LET region == compatible_regions[i] IN
       \E response \in IntensityResponses :
         /\ intensity' = [intensity EXCEPT ![region.code] = response]
         /\ intensity_requests' =
                [intensity_requests EXCEPT ![region.code] = @ + RequestsPerFetch]
         /\ IF response.status = "failed"
            THEN /\ outcome' = "raised"
                 /\ pc' = "done"
                 /\ UNCHANGED <<scored_regions, i, result>>
            ELSE LET scored == Append(scored_regions, ScoredEntry(region, response))
                     sorted == SortByScore(scored)
                 IN  IF i < Len(compatible_regions)
                     THEN /\ scored_regions' = scored
                          /\ i' = i + 1
                          /\ UNCHANGED <<pc, outcome, result>>
                     ELSE /\ scored_regions' = sorted
                          /\ result' =
                               [recommended_region |-> RecommendedOf(sorted),
                                all_options |-> sorted,
                                analysis |-> AnalysisOf(regions, nearby_regions,
                                                        compatible_regions)]
                          /\ outcome' = "returned"
                          /\ pc' = "done"
                          /\ UNCHANGED i
    /\ UNCHANGED <<cached_regions, regions, user_location, required_services,
                   max_distance_km, nearby_regions, compatible_regions, j,
                   oracle, verdict, fetch_log, callers, returned>>
    /\ UNCHANGED <<gate_vars, static_vars, app_vars>>

Next ==
    \/ Construct
    \/ RecommendRegion
    \/ CheckService
    \/ ScoreRegion

Spec == Init /\ [][Next]_vars

\* ------------------------------------------- get_aws_regions, called freely
\* `if not _cached_regions:` of a get_aws_regions call by thread t: with a
\* non-empty cache the call returns it, otherwise it goes on to the request.
GetRegionsEnter(t) ==
    /\ callers[t].pc = "idle"
    /\ callers[t].calls < MaxCalls
    /\ IF cached_regions # <<>>
       THEN /\ returned' = returned \cup {cached_regions}
            /\ callers' = [callers EXCEPT ![t].calls = @ + 1]
       ELSE /\ callers' = [callers EXCEPT ![t].pc = "fetching"]
            /\ UNCHANGED returned
    /\ UNCHANGED <<cached_regions, fetch_log>>
    /\ UNCHANGED pipeline_vars
    /\ UNCHANGED <<gate_vars, static_vars, app_vars>>

\* The describe_regions request of thread t answers or raises; an answer
\* is built into the list, assigned to _cached_regions and returned.
GetRegionsFetch(t) ==
    /\ callers[t].pc = "fetching"
    /\ \E response \in DescribeRegionsResponses :
         /\ fetch_log' = Logged(fetch_log, response)
         /\ callers' = [callers EXCEPT ![t] = [pc |-> "idle", calls |-> @.calls + 1]]
         /\ IF response.raised
            THEN UNCHANGED <<cached_regions, returned>>
            ELSE /\ cached_regions' = BuildRegions(response)
                 /\ returned' = returned \cup {cached_regions'}
    /\ UNCHANGED pipeline_vars
    /\ UNCHANGED <<gate_vars, static_vars, app_vars>>

FetcherNext(T) == \E t \in T : GetRegionsEnter(t) \/ GetRegionsFetch(t)

\* One thread calling get_aws_regions again and again.
SpecFetcherSeq == Init /\ [][FetcherNext({1})]_vars

\* The pipeline with every pending step eventually taken: the process is
\* scheduled, and every external request returns or fails.
LiveSpec == Spec /\ WF_vars(Next)

\* Several threads calling get_aws_regions, their requests interleaved.
SpecFetcher == Init /\ [][FetcherNext(Callers)]_vars

\* ------------------------------------------- find_nearby_regions, as a function
\* find_nearby_regions applied to any list of RegionData values, not only
\* the lists get_aws_regions builds: regions and user on the equator.
EquatorLongitudes == {0, 10, 60}
NearbyUserLocations == {<<0, 0>>, <<0, 20>>}
NearbyMaxDistancesKm == {0, 2000, 6000}

RegionLists ==
    UNION {{[k \in 1..Len(codes) |-> [code |-> codes[k], location |-> <<0, lons[k]>>]] :
               lons \in [1..Len(codes) -> EquatorLongitudes]} :
           codes \in DistinctSeqsUpTo(RegionCodes, MaxRegions)}

\* Everything but the named inputs is as at process start.
IdleBut(regs, loc, max_km, nearby, services, answers, alt, at) ==
    /\ pc = at
    /\ cached_regions = <<>>
    /\ regions = regs
    /\ user_location = loc
    /\ required_services = services
    /\ max_distance_km = max_km
    /\ nearby_regions = nearby
    /\ compatible_regions = <<>>
    /\ scored_regions = <<>>
    /\ i = 1
    /\ j = 1
    /\ oracle = answers
    /\ verdict = [c \in RegionCodes |-> [s \in KnownTokens |-> "unchecked"]]
    /\ intensity = [c \in RegionCodes |-> IntensityNotFetched]
    /\ intensity_requests = [c \in RegionCodes |-> 0]
    /\ fetch_log = [requests |-> 0, raised |-> 0, empty |-> 0]
    /\ callers = [t \in Callers |-> [pc |-> "idle", calls |-> 0]]
    /\ returned = {}
    /\ alt_services = alt
    /\ alt_compatible = <<>>
    /\ outcome = "none"
    /\ result = <<>>

NothingAsked == [c \in RegionCodes |-> [s \in KnownTokens |-> "unasked"]]

InitNearby ==
    \E regs \in RegionLists, loc \in NearbyUserLocations,
       max_km \in NearbyMaxDistancesKm :
        /\ IdleBut(regs, loc, max_km, <<>>, <<>>, NothingAsked, <<>>, "nearby_call")
        /\ StaticIdle
        /\ AppIdle

ApplyFindNearby ==
    /\ pc = "nearby_call"
    /\ nearby_regions' = FindNearbyRegions(regions, user_location, max_distance_km)
    /\ pc' = "nearby_returned"
    /\ UNCHANGED <<cached_regions, regions, user_location, required_services,
                   max_distance_km, compatible_regions, scored_regions, i, j,
                   oracle, verdict, intensity, intensity_requests, fetch_log,
                   callers, returned, outcome, result>>
    /\ UNCHANGED <<gate_vars, static_vars, app_vars>>

SpecNearby == InitNearby /\ [][ApplyFindNearby]_vars

\* ------------------------------------------- filter_by_services, as a function
\* Every answer the boto3 requests can give, fixed for a whole run.
AnswersOfRegion ==
    {g \in [KnownTokens -> {"norequest", "ok", "listed", "empty", "error"}] :
        \A s \in KnownTokens : g[s] \in BotoResponses(s)}

\* filter_by_services applied twice to the same regions under the same
\* answers, with two lists that hold the same set of services.  The regions
\* are filtered one by one, so their order is left fixed; the answers are
\* drawn for the regions of the list.
InitGate ==
    \E n \in 0..MaxRegions,
       services \in SeqsUpTo(ServiceTokens, MaxServices),
       alt \in SeqsUpTo(ServiceTokens, MaxServices) :
        /\ Range(alt) = Range(services)
        /\ \E answers \in [1..n -> AnswersOfRegion] :
             IdleBut(<<>>, <<0, 0>>, 0,
                     BuildRegions([raised |-> FALSE, Regions |-> [k \in 1..n |-> k]]),
                     services, answers, alt, "filter_call")
        /\ StaticIdle
        /\ AppIdle

ApplyFilterTwice ==
    /\ pc = "filter_call"
    /\ compatible_regions' = FilterByServices(nearby_regions, required_services, oracle)
    /\ alt_compatible' = FilterByServices(nearby_regions, alt_services, oracle)
    /\ pc' = "filter_returned"
    /\ UNCHANGED <<cached_regions, regions, user_location, required_services,
                   max_distance_km, nearby_regions, scored_regions, i, j,
                   oracle, verdict, intensity, intensity_requests, fetch_log,
                   callers, returned, alt_services, outcome, result>>
    /\ UNCHANGED <<static_vars, app_vars>>

SpecGate == InitGate /\ [][ApplyFilterTwice]_vars

\* ------------------------------------------- aws_service_checker.py
\* The static checker searches its request for substrings, so its strings
\* are held as sequences of characters.
Xlarge == <<"x", "l", "a", "r", "g", "e">>

\* The sizes of the G5 and G6 families by their leading digits: xlarge,
\* 2xlarge, 4xlarge, 8xlarge, 12xlarge, 16xlarge.
SizeDigits == {<<>>, <<"2">>, <<"4">>, <<"8">>, <<"1", "2">>, <<"1", "6">>}
Families == {"5", "6"}

\* "4xlarge"
SizeName(digits) == digits \o Xlarge

\* "g5.4xlarge"
InstanceType(family, digits) == <<"g", family, ".">> \o SizeName(digits)

\* "ec2 g5.4xlarge" and "ec2 g5"
Ec2Request(family, digits) == <<"e", "c", "2", " ">> \o InstanceType(family, digits)
Ec2FamilyRequest(family) == <<"e", "c", "2", " ", "g", family>>

\* needle in hay
Contains(hay, needle) ==
    \E k \in 0..(Len(hay) - Len(needle)) :
        SubSeq(hay, k + 1, k + Len(needle)) = needle

\* Four regions with a table of their own, and one served by
\* DEFAULT_SERVICES.
StaticRegions ==
    {"us-east-1", "ap-south-1", "ap-southeast-1", "eu-west-1", "eu-north-1"}

StaticRequests ==
    {Ec2Request(f, d) : f \in Families, d \in SizeDigits}
        \cup {Ec2FamilyRequest(f) : f \in Families}
        \cup {<<"e", "c", "2">>}

\* The "ec2-g5" / "ec2-g6" entry of the region's table: whether the key is
\* there, and the sizes it lists.
RegionalEntry(region, family) ==
    LET sizes ==
          IF region = "us-east-1" THEN SizeDigits
          ELSE IF region = "ap-south-1" /\ family = "5" THEN {<<>>, <<"2">>}
          ELSE IF region = "ap-southeast-1" /\ family = "5"
               THEN {<<>>, <<"2">>, <<"4">>}
          ELSE IF region = "eu-west-1" /\ family = "6" THEN {<<>>, <<"2">>, <<"4">>}
          ELSE IF region = "eu-west-1" /\ family = "5"
               THEN {<<>>, <<"2">>, <<"4">>, <<"8">>}
          ELSE {}
    IN  [present |-> sizes # {},
         types |-> {InstanceType(family, d) : d \in sizes}]

\* next((inst for inst in [g.xlarge, g.2xlarge, g.4xlarge, g.8xlarge]
\*       if inst.split('.')[1] in service_request), None); None is <<>>.
RequestedInstance(family, request) ==
    LET candidates == <<<<>>, <<"2">>, <<"4">>, <<"8">>>>
        hits == {k \in DOMAIN candidates : Contains(request, SizeName(candidates[k]))}
    IN  IF hits = {} THEN <<>>
        ELSE InstanceType(family, candidates[CHOOSE k \in hits : \A m \in hits : k <= m])

\* The branch of check_service_availability for one GPU family.
CheckFamily(region, request, family) ==
    LET entry == RegionalEntry(region, family) IN
    IF ~entry.present THEN FALSE
    ELSE IF \E d \in {<<>>, <<"2">>, <<"4">>} : Contains(request, SizeName(d))
    THEN RequestedInstance(family, request) \in entry.types
    ELSE TRUE

\* check_service_availability of aws_service_checker.py, for requests that
\* contain "ec2" (lower().strip() leaves the sampled requests unchanged).
\* Every table, DEFAULT_SERVICES included, has the key "ec2".
StaticCheckServiceAvailability(region, request) ==
    IF Contains(request, <<"g", "6">>) THEN CheckFamily(region, request, "6")
    ELSE IF Contains(request, <<"g", "5">>) THEN CheckFamily(region, request, "5")
    ELSE TRUE

InitStatic ==
    \E region \in StaticRegions, request \in StaticRequests :
        /\ IdleBut(<<>>, <<0, 0>>, 0, <<>>, <<>>, NothingAsked, <<>>, "static_call")
        /\ static_call = [region |-> region, request |-> request]
        /\ static_result = <<>>
        /\ AppIdle

ApplyStaticCheck ==
    /\ pc = "static_call"
    /\ static_result' =
           <<StaticCheckServiceAvailability(static_call.region, static_call.request)>>
    /\ pc' = "static_returned"
    /\ UNCHANGED <<cached_regions, regions, user_location, required_services,
                   max_distance_km, nearby_regions, compatible_regions,
                   scored_regions, i, j, oracle, verdict, intensity,
                   intensity_requests, fetch_log, callers, returned, outcome,
                   result, static_call>>
    /\ UNCHANGED <<gate_vars, app_vars>>

SpecStatic == InitStatic /\ [][ApplyStaticCheck]_vars

\* ------------------------------------------- streamlit_app.py, region analysis
\* One run of the script after a click on "Analyze Regions": the advisor
\* has been loaded (Construct), the regions offered are the cached catalog,
\* fetched again while the cache is empty.
AppServiceLists == SeqsUpTo(AppTokens, MaxServices)

\* extract_services raises (no Bedrock client, a failed invoke_model) or
\* returns a list, possibly empty.
ExtractionRaises == [raised |-> TRUE, services |-> <<>>]
Extractions ==
    {ExtractionRaises} \cup {[raised |-> FALSE, services |-> l] : l \in AppServiceLists}

\* st.stop() ended the script before the results container was drawn.
Stopped == [shown |-> "stopped", filtered_options |-> <<>>, best |-> <<>>]

\* The services of the list the live checker reports unavailable; it
\* catches every exception itself, so the except of line 161 adds nothing.
UnavailableServices(services, answers) ==
    SelectSeq(services, LAMBDA sv : ~CheckAwsServiceAvailabilityLive(sv, answers[sv]))

SupportsAllAlways(unavailable) == TRUE

\* supports_all_services = len(unavailable_services) == 0
SupportsAll(unavailable) == Len(unavailable) = 0

\* One element of all_regions_data (region_name is left out).
AppEntry(region, response, unavailable) ==
    LET ci == GetLiveCarbonIntensity(response)
    IN  [region_code |-> region.code,
         location_based_intensity |-> ci[1],
         market_based_intensity |-> ci[2],
         sustainability_score |-> Round3(FormulaScore(ci[1], ci[2])),
         supports_services |-> SupportsAll(unavailable),
         unavailable_services |-> unavailable]

DisplaySortNone(entries) == entries

\* all_regions_data.sort(key=lambda x: x["sustainability_score"])
DisplaySort(entries) ==
    StableSortByKeys(entries,
        [k \in 1..Len(entries) |-> entries[k].sustainability_score])

\* The results container for the stored results: the recommendation with
\* best = filtered_options[0], or the warning that no region supports all
\* services; the hint while nothing (or an empty list) is stored.
DisplayOf(state) ==
    IF state.show_results /\ state.analysis_results # <<>>
    THEN LET filtered == SelectSeq(DisplaySort(state.analysis_results),
                                   LAMBDA r : r.supports_services)
         IN  IF filtered # <<>>
             THEN [shown |-> "recommendation", filtered_options |-> filtered,
                   best |-> <<filtered[1]>>]
             ELSE [shown |-> "warning", filtered_options |-> <<>>, best |-> <<>>]
    ELSE ShowsHint

\* The session state once the script has stored the list and the display
\* has sorted it in place.
StoredResults(data) ==
    [analysis_results |-> DisplaySort(data), stored |-> TRUE, show_results |-> TRUE]

\* The click: the options are built (lines 88-90), the session state is
\* cleared, the inputs are tested and the services extracted.
AnalyzeClick ==
    /\ pc = "ready"
    /\ \E response \in (IF cached_regions # <<>>
                         THEN {[raised |-> FALSE, Regions |-> <<>>]}
                         ELSE DescribeRegionsResponses) :
         LET fetched == cached_regions = <<>>
             options == IF fetched /\ ~response.raised THEN BuildRegions(response)
                        ELSE cached_regions
         IN
         /\ fetch_log' = IF fetched THEN Logged(fetch_log, response) ELSE fetch_log
         /\ cached_regions' = options
         /\ IF fetched /\ response.raised
            THEN /\ pc' = "app_done"
                 /\ outcome' = "raised"
                 /\ display' = Stopped
                 /\ UNCHANGED <<required_services, region_codes, session_state>>
            ELSE \E services_input \in {"", "workload"},
                    selected_regions \in
                        DistinctSeqsUpTo({options[k].code : k \in DOMAIN options},
                                         MaxRegions),
                    extraction \in Extractions :
                   /\ session_state' = NoResults
                   /\ UNCHANGED outcome
                   /\ IF services_input = "" \/ selected_regions = <<>>
                      THEN /\ pc' = "app_done"
                           /\ display' = ShowsHint
                           /\ UNCHANGED <<required_services, region_codes>>
                      ELSE IF extraction.raised \/ extraction.services = <<>>
                      THEN /\ pc' = "app_done"
                           /\ display' = Stopped
                           /\ required_services' = extraction.services
                           /\ UNCHANGED region_codes
                      ELSE /\ pc' = "analyzing"
                           /\ required_services' = extraction.services
                           /\ region_codes' = selected_regions
                           /\ UNCHANGED display
    /\ UNCHANGED <<regions, user_location, max_distance_km, nearby_regions,
                   compatible_regions, scored_regions, i, j, oracle, verdict,
                   intensity, intensity_requests, callers, returned, result,
                   all_regions_data>>
    /\ UNCHANGED <<gate_vars, static_vars>>

\* One iteration of the loop over region_codes: the region is looked up in
\* advisor.regions, its intensity fetched, its services checked, its entry
\* appended.  A failed intensity request raises into the except of line
\* 186, which reports the error and stops the script.  After the last
\* region the list is stored and the results container is drawn.
AnalyzeRegion ==
    /\ pc = "analyzing"
    /\ LET region_code == region_codes[i]
           matches == SelectSeq(regions, LAMBDA r : r.code = region_code)
           last == i = Len(region_codes)
       IN
       \E response \in (IF matches = <<>> THEN {IntensityNotFetched}
                         ELSE IntensityResponses),
          answers \in AnswersOfRegion :
         LET found == matches # <<>>
             failed == found /\ response.status = "failed"
             data == IF found
                     THEN Append(all_regions_data,
                                 AppEntry(matches[1], response,
                                          UnavailableServices(required_services,
                                                              answers)))
                     ELSE all_regions_data
         IN
         /\ intensity' = IF found THEN [intensity EXCEPT ![region_code] = response]
                          ELSE intensity
         /\ intensity_requests' =
                IF found
                THEN [intensity_requests EXCEPT ![region_code] = @ + RequestsPerFetch]
                ELSE intensity_requests
         /\ oracle' =
                IF found /\ ~failed
                THEN [oracle EXCEPT ![region_code] =
                         [sv \in KnownTokens |->
                             IF sv \in Range(required_services) THEN answers[sv]
                             ELSE @[sv]]]
                ELSE oracle
         /\ IF failed
            THEN /\ pc' = "app_done"
                 /\ display' = Stopped
                 /\ UNCHANGED <<all_regions_data, session_state, i>>
            ELSE /\ all_regions_data' = data
                 /\ IF last
                    THEN /\ session_state' = StoredResults(data)
                         /\ display' = DisplayOf(session_state')
                         /\ pc' = "app_done"
                         /\ UNCHANGED i
                    ELSE /\ i' = i + 1
                         /\ UNCHANGED <<pc, session_state, display>>
    /\ UNCHANGED <<cached_regions, regions, user_location, required_services,
                   max_distance_km, nearby_regions, compatible_regions,
                   scored_regions, j, verdict, fetch_log, callers, returned,
                   outcome, result, region_codes>>
    /\ UNCHANGED <<gate_vars, static_vars>>

AppNext ==
    \/ Construct
    \/ AnalyzeClick
    \/ AnalyzeRegion

SpecApp == Init /\ [][AppNext]_vars

\* ================================================================ claims
\* ------------------------------------------------------- shared vocabulary
\* recommend_region has been entered and find_nearby_regions has returned.
NearbyComputed == pc \in {"filter", "score", "done"}

\* filter_by_services has returned.
FilterReturned == pc = "score" \/ (pc = "done" /\ nearby_regions # <<>>)

\* recommend_region returned the dict of a ranked result.
Succeeded == pc = "done" /\ outcome = "returned" /\ "all_options" \in DOMAIN result

\* recommend_region returned the early-return dict with this message.
ReturnedError(message) ==
    /\ pc = "done"
    /\ outcome = "returned"
    /\ "error" \in DOMAIN result
    /\ result.error = message

\* check_service_availability answered True for every required service.
AllRequiredAvailable(code) ==
    \A k \in DOMAIN required_services : verdict[code][required_services[k]] = "yes"

\* The distance test, written out on the catalog.
CatalogWithin(k) ==
    CalculateDistance(user_location, regions[k].location) <= max_distance_km * 1000

NoOracleAsked ==
    \A c \in RegionCodes, s \in KnownTokens : oracle[c][s] = "unasked"

NoIntensityFetched ==
    \A c \in RegionCodes : intensity[c].status = "unfetched"

\* ---------------------------------------------------------------------- C1
\* C1: filter_by_services returns exactly the input regions, in input order,
\* for which check_service_availability is true for every required service.
C1_FilterKeepsExactlyAvailable ==
    FilterReturned =>
        compatible_regions =
            SelectSeq(nearby_regions, LAMBDA r : AllRequiredAvailable(r.code))

\* A run where two regions were filtered on two services, one kept, one not.
C1_Witness ==
    /\ FilterReturned
    /\ Len(required_services) = 2
    /\ Len(nearby_regions) = 2
    /\ Len(compatible_regions) = 1

\* ---------------------------------------------------------------------- C2
\* C2: whenever the boto3 request for a capability of a region raises or
\* reports nothing offered, check_service_availability is false for that
\* capability and the region does not pass the gate.
C2_FailClosed ==
    \A c \in RegionCodes, s \in KnownTokens :
        oracle[c][s] \in {"error", "empty"} =>
            /\ verdict[c][s] = "no"
            /\ \A k \in DOMAIN compatible_regions : compatible_regions[k].code # c

\* ---------------------------------------------------------------------- C3
\* C3: when the intensity request fails for a compatible region,
\* recommend_region still returns; the failed region is left out of the
\* ranking and every other compatible region is in it.
C3_IntensityFailureAbsorbed ==
    (pc = "done" /\ \E c \in RegionCodes : intensity[c].status = "failed") =>
        /\ outcome = "returned"
        /\ "all_options" \in DOMAIN result
        /\ \A k \in DOMAIN compatible_regions :
             LET c == compatible_regions[k].code IN
             (intensity[c].status # "failed") <=>
                 (\E m \in DOMAIN result.all_options :
                      result.all_options[m].region_code = c)

\* ---------------------------------------------------------------------- C4
\* C4: in every ranked result all_options is ascending by
\* sustainability_score.
C4_SortedAscending ==
    Succeeded =>
        \A a, b \in DOMAIN result.all_options :
            a < b => result.all_options[a].sustainability_score
                         <= result.all_options[b].sustainability_score

\* A ranked result whose first entry was scored second: the sort moved it.
C4_Witness ==
    /\ Succeeded
    /\ Len(result.all_options) = 2
    /\ result.all_options[1].region_code = compatible_regions[2].code
    /\ result.all_options[1].sustainability_score
           < result.all_options[2].sustainability_score

\* ---------------------------------------------------------------------- C5
\* C5: of two entries of a ranked result with the same score, the one with
\* the smaller region code comes first.
C5_TieBrokenByCode ==
    Succeeded =>
        \A a, b \in DOMAIN result.all_options :
            (/\ a < b
             /\ result.all_options[a].sustainability_score
                    = result.all_options[b].sustainability_score)
            => result.all_options[a].region_code < result.all_options[b].region_code

\* ---------------------------------------------------------------------- C6
\* C6: the reported score is the formula score with no rounding, and an
\* entry with a strictly lower formula score is ranked before one with a
\* strictly higher formula score.
EntryFormulaScore(e) ==
    FormulaScore(e.location_based_intensity, e.market_based_intensity)

C6_ExactScoreNoRounding ==
    Succeeded =>
        /\ \A a \in DOMAIN result.all_options :
             result.all_options[a].sustainability_score * 100
                 = EntryFormulaScore(result.all_options[a])
        /\ \A a, b \in DOMAIN result.all_options :
             EntryFormulaScore(result.all_options[a])
                 < EntryFormulaScore(result.all_options[b]) => a < b

\* ---------------------------------------------------------------------- C7
\* C7: the 'no regions within distance' outcome is returned iff no catalog
\* region is within max_distance_km, the 'no regions support all services'
\* outcome iff some region is within distance and none passes the filter;
\* both are returned values, and no later stage has run.
C7_EmptyOutcomeNamesStage ==
    pc = "done" =>
        LET none_within == \A k \in DOMAIN regions : ~CatalogWithin(k)
            none_passes == \A k \in DOMAIN regions :
                               CatalogWithin(k) => ~AllRequiredAvailable(regions[k].code)
        IN  /\ ReturnedError(ErrNoNearby) <=> none_within
            /\ ReturnedError(ErrNoCompatible) <=> (~none_within /\ none_passes)
            /\ ReturnedError(ErrNoNearby) => (NoOracleAsked /\ NoIntensityFetched)
            /\ ReturnedError(ErrNoCompatible) => NoIntensityFetched

\* Both empty outcomes happen; this is the later one, after real checks.
C7_Witness ==
    /\ ReturnedError(ErrNoCompatible)
    /\ Len(nearby_regions) = 2
    /\ ~NoOracleAsked

\* ---------------------------------------------------------------------- C8
\* C8: an empty outcome carries the counters: 'no regions support all
\* services' has no ranked entry and a non-zero nearby count, 'no regions
\* within distance' a catalog count above 0 and a nearby count of 0.
C8_EmptyOutcomeCarriesCounters ==
    (pc = "done" /\ outcome = "returned" /\ "error" \in DOMAIN result) =>
        /\ "analysis" \in DOMAIN result
        /\ "all_options" \in DOMAIN result
        /\ result.error = ErrNoCompatible =>
             /\ Len(result.all_options) = 0
             /\ result.analysis.nearby_regions_found > 0
        /\ result.error = ErrNoNearby =>
             /\ result.analysis.total_regions_evaluated > 0
             /\ result.analysis.nearby_regions_found = 0

\* ---------------------------------------------------------------------- C9
\* C9: find_nearby_regions returns exactly the catalog regions at a distance
\* of at most max_distance_km from the user, each once.
C9_NearbyExactlyWithinDistance ==
    NearbyComputed =>
        /\ \A k \in DOMAIN regions :
             CatalogWithin(k) <=> regions[k] \in Range(nearby_regions)
        /\ Range(nearby_regions) \subseteq Range(regions)
        /\ Cardinality(Range(nearby_regions)) = Len(nearby_regions)

\* The boundary: the user stands on the regions and max_distance_km is 0.
C9_Witness ==
    /\ NearbyComputed
    /\ max_distance_km = 0
    /\ Len(regions) = 2
    /\ Len(nearby_regions) = 2

\* --------------------------------------------------------------------- C10
\* C10: with a catalog that failed or is empty the advisor ends in an error
\* surfaced to the caller; recommend_region never returns a value computed
\* from an empty catalog.
C10_EmptyCatalogIsFatal ==
    (pc \in {"failed", "done"} /\ regions = <<>>) => outcome = "raised"

\* --------------------------------------------------------------------- C11
\* C11: over any sequence of get_aws_regions calls in one process,
\* describe_regions is requested at most once and every call returns the
\* same list.  (Stated for the runs where no request raised.)
C11_CatalogFetchedOnce ==
    fetch_log.raised = 0 =>
        /\ fetch_log.requests <= 1
        /\ Cardinality(returned) <= 1

\* --------------------------------------------------------------------- C12
\* C12: when threads call get_aws_regions concurrently on an empty cache,
\* one of them alone fetches the catalog and writes the cache, and all see
\* the same list.  (Stated for the runs where every request answered with
\* at least one region.)
C12_SingleInitialisation ==
    (fetch_log.raised = 0 /\ fetch_log.empty = 0) =>
        /\ fetch_log.requests <= 1
        /\ Cardinality(returned) <= 1

\* --------------------------------------------------------------------- C13
\* C13: the result of recommend_region is determined by its arguments, the
\* catalog and the oracle responses, so two runs that agree on these return
\* the same dict, ties included: all_options holds the entries of the
\* catalog regions that are within distance and available, ordered by
\* score, then distance, then catalog position.
C13_Survivors ==
    {k \in DOMAIN regions : CatalogWithin(k) /\ AllRequiredAvailable(regions[k].code)}

C13_Entry(k) == ScoredEntry(regions[k], intensity[regions[k].code])

C13_Before(m, k) ==
    LET sm == C13_Entry(m).sustainability_score
        sk == C13_Entry(k).sustainability_score
        dm == CalculateDistance(user_location, regions[m].location)
        dk == CalculateDistance(user_location, regions[k].location)
    IN  \/ sm < sk
        \/ sm = sk /\ dm < dk
        \/ sm = sk /\ dm = dk /\ m < k

C13_Expected ==
    LET pos(k) == 1 + Cardinality({m \in C13_Survivors : C13_Before(m, k)})
        options == [a \in 1..Cardinality(C13_Survivors) |->
                       C13_Entry(CHOOSE k \in C13_Survivors : pos(k) = a)]
    IN  [recommended_region |-> options[1],
         all_options |-> options,
         analysis |->
           [total_regions_evaluated |-> Len(regions),
            nearby_regions_found |->
                Cardinality({k \in DOMAIN regions : CatalogWithin(k)}),
            service_compatible_regions |-> Cardinality(C13_Survivors)]]

C13_ResultDetermined == Succeeded => result = C13_Expected

\* A ranked result with two entries of equal score.
C13_Witness ==
    /\ Succeeded
    /\ Len(result.all_options) = 2
    /\ result.all_options[1].sustainability_score
           = result.all_options[2].sustainability_score

\* --------------------------------------------------------------------- C14
\* C14: a token the live checker does not recognise (no EC2 instance
\* request, no listed basic service, no RDS engine request) is never
\* reported available.
C14_UnknownTokenNotAvailable ==
    \A c \in RegionCodes, s \in KnownTokens :
        (~IsEc2InstanceRequest(s) /\ ~IsBasicService(s) /\ ~IsRdsEngineRequest(s))
            => verdict[c][s] # "yes"

\* --------------------------------------------------------------------- C15
\* C15: intensities are returned only from a response that holds a
\* carbonIntensity reading; without one the call fails and the region gets
\* no entry.
C15_NoSilentDefault ==
    /\ \A k \in DOMAIN scored_regions :
         intensity[scored_regions[k].region_code].status = "ok"
    /\ (pc = "done" /\ \E c \in RegionCodes : intensity[c].status = "no_reading")
           => ~Succeeded

\* --------------------------------------------------------------------- C16
\* C16: a user location with |latitude| > 90 or |longitude| > 180 is
\* rejected with an error before any region is distance-filtered and
\* before any oracle is asked.
C16_InvalidCoordinateRejected ==
    (NearbyComputed /\ (Abs(user_location[1]) > 90 \/ Abs(user_location[2]) > 180))
        => /\ pc = "done"
           /\ outcome = "raised"
           /\ nearby_regions = <<>>
           /\ NoOracleAsked
           /\ NoIntensityFetched

\* --------------------------------------------------------------------- C17
\* C17: with no required service the filter returns its input unchanged
\* without asking the availability oracle, and recommend_region does not
\* end in 'no regions support all required services'.
C17_EmptyRequirementPassesAll ==
    (NearbyComputed /\ required_services = <<>>) =>
        /\ compatible_regions = nearby_regions
        /\ NoOracleAsked
        /\ ~ReturnedError(ErrNoCompatible)

\* Two nearby regions went through the filter with no required service.
C17_Witness ==
    /\ pc = "score"
    /\ required_services = <<>>
    /\ Len(nearby_regions) = 2
    /\ Len(compatible_regions) = 2

\* --------------------------------------------------------------------- C20
\* C20: recommended_region and every element of all_options carry the
\* region's distance from the user under the key main() reads.
C20_EntriesCarryDistance ==
    Succeeded =>
        /\ "distance_km" \in DOMAIN result.recommended_region
        /\ \A k \in DOMAIN result.all_options :
             "distance_km" \in DOMAIN result.all_options[k]

\* --------------------------------------------------------------------- C18
\* C18: under fixed oracle answers, two required_services lists that hold
\* the same set of services (one a permutation of the other, or with an
\* entry repeated) make filter_by_services return the same regions.
C18_GateDependsOnSetOnly ==
    pc = "filter_returned" => compatible_regions = alt_compatible

\* Two services in opposite orders, and the filter kept one region of two.
C18_Witness ==
    /\ pc = "filter_returned"
    /\ Len(required_services) = 2
    /\ required_services[1] # required_services[2]
    /\ alt_services = <<required_services[2], required_services[1]>>
    /\ Len(nearby_regions) = 2
    /\ Len(compatible_regions) = 1

\* --------------------------------------------------------------------- C19
\* C19: find_nearby_regions returns its regions in non-decreasing distance
\* from the user.
C19_NearbyAscendingByDistance ==
    pc = "nearby_returned" =>
        \A a, b \in DOMAIN nearby_regions :
            a < b => CalculateDistance(user_location, nearby_regions[a].location)
                         <= CalculateDistance(user_location, nearby_regions[b].location)

\* The nearer of two regions came second in the catalog: the sort moved it.
C19_Witness ==
    /\ pc = "nearby_returned"
    /\ Len(regions) = 2
    /\ Len(nearby_regions) = 2
    /\ nearby_regions[1] = regions[2]
    /\ CalculateDistance(user_location, regions[2].location)
           < CalculateDistance(user_location, regions[1].location)

\* --------------------------------------------------------------------- C21
\* C21: in a recommend_region call that reached the scoring stage, the
\* ElectricityMaps request has been sent exactly once for each
\* service-compatible region, and never more than once for any region.
C21_EachCompatibleQueriedOnce ==
    /\ \A c \in RegionCodes : intensity_requests[c] <= 1
    /\ (pc = "done" /\ compatible_regions # <<>>) =>
           \A k \in DOMAIN compatible_regions :
               intensity_requests[compatible_regions[k].code] = 1

\* --------------------------------------------------------------------- C22
\* C22: the availability oracle is asked only about regions within
\* max_distance_km, and the intensity oracle only about regions within
\* distance for which every required service was reported available, and
\* only once the service filter has decided every nearby region.
C22_FilterDecided(code) ==
    \/ AllRequiredAvailable(code)
    \/ \E k \in DOMAIN required_services : verdict[code][required_services[k]] = "no"

C22_PruneBeforePaying ==
    /\ \A c \in RegionCodes, s \in KnownTokens :
         oracle[c][s] # "unasked" =>
             \E k \in DOMAIN regions : regions[k].code = c /\ CatalogWithin(k)
    /\ \A c \in RegionCodes :
         intensity_requests[c] > 0 =>
             /\ \E k \in DOMAIN regions :
                    /\ regions[k].code = c
                    /\ CatalogWithin(k)
                    /\ AllRequiredAvailable(c)
             /\ \A k \in DOMAIN nearby_regions :
                    C22_FilterDecided(nearby_regions[k].code)

\* One nearby region failed the service filter, the other is being scored.
C22_Witness ==
    /\ Len(nearby_regions) = 2
    /\ Len(compatible_regions) = 1
    /\ intensity_requests[compatible_regions[1].code] = 1
    /\ \E k \in DOMAIN nearby_regions :
           /\ ~AllRequiredAvailable(nearby_regions[k].code)
           /\ intensity_requests[nearby_regions[k].code] = 0

\* --------------------------------------------------------------------- C23
\* C23: a recommend_region run goes through distance filtering, service
\* filtering, scoring and ranking in this order, never back, and, every
\* request returning or failing, ends with a returned value: the ranked
\* result or one of the two empty results.
C23_StageStep ==
    /\ pc = "ready" => pc' \in {"ready", "filter", "score", "done"}
    /\ pc = "filter" => pc' \in {"filter", "score", "done"}
    /\ pc = "score" => pc' \in {"score", "done"}
    /\ pc = "done" => pc' = "done"
    /\ (pc' = "score" /\ pc # "score") => nearby_regions' # <<>>
    /\ (pc' = "done" /\ pc # "done" /\ outcome' = "returned"
            /\ "all_options" \in DOMAIN result') => pc = "score"

C23_StagesInOrderEndInValue ==
    /\ [][C23_StageStep]_vars
    /\ (pc = "ready") ~> (pc = "done" /\ outcome = "returned")

\* --------------------------------------------------------------------- C24
\* C24: all_options of a ranked result holds exactly the catalog regions
\* within max_distance_km for which every required service was reported
\* available, each once.
C24_OptionsExactlySurvivors ==
    Succeeded =>
        /\ {result.all_options[a].region_code : a \in DOMAIN result.all_options}
               = {regions[k].code : k \in C13_Survivors}
        /\ Len(result.all_options) = Cardinality(C13_Survivors)

\* Two regions in the catalog, both nearby, one of them in the result
\* after two services were checked.
C24_Witness ==
    /\ Succeeded
    /\ Len(regions) = 2
    /\ Len(required_services) = 2
    /\ Len(result.all_options) = 1
    /\ user_location # <<0, 0>>

\* --------------------------------------------------------------------- C25
\* C25: in a ranked result total_regions_evaluated >= nearby_regions_found
\* >= service_compatible_regions >= 1, and all_options has
\* service_compatible_regions entries.
C25_CounterChain ==
    Succeeded =>
        /\ result.analysis.total_regions_evaluated
               >= result.analysis.nearby_regions_found
        /\ result.analysis.nearby_regions_found
               >= result.analysis.service_compatible_regions
        /\ result.analysis.service_compatible_regions >= 1
        /\ Len(result.all_options) = result.analysis.service_compatible_regions

\* A ranked result whose counters differ: two nearby, one compatible.
C25_Witness ==
    /\ Succeeded
    /\ result.analysis.nearby_regions_found = 2
    /\ result.analysis.service_compatible_regions = 1

\* --------------------------------------------------------------------- C26
\* C26: in a ranked result recommended_region is the first element of
\* all_options, and no element has a smaller sustainability_score.
C26_RecommendedIsFirstAndLowest ==
    Succeeded =>
        /\ result.recommended_region = result.all_options[1]
        /\ \A a \in DOMAIN result.all_options :
               result.recommended_region.sustainability_score
                   <= result.all_options[a].sustainability_score

\* Two entries with different scores, the recommended one scored second.
C26_Witness ==
    /\ Succeeded
    /\ Len(result.all_options) = 2
    /\ result.recommended_region.region_code = compatible_regions[2].code
    /\ result.all_options[2].sustainability_score
           > result.recommended_region.sustainability_score

C28_StaticAnswersForRequestedSize ==
    pc = "static_returned" =>
        \A f \in Families, d \in SizeDigits :
            static_call.request = Ec2Request(f, d) =>
                (static_result[1] <=>
                    InstanceType(f, d) \in RegionalEntry(static_call.region, f).types)

\* --------------------------------------------------------------------- C29
\* C29: the region the app shows as recommended supports every required
\* service (its unavailable_services is empty and every check of it
\* answered available) and has the lowest sustainability_score among the
\* analysed regions that support them all; when no analysed region does,
\* no region is recommended.
C29_SupportsAll(entry) ==
    /\ entry.unavailable_services = <<>>
    /\ \A k \in DOMAIN required_services :
           CheckAwsServiceAvailabilityLive(required_services[k],
               oracle[entry.region_code][required_services[k]])

C29_RecommendedSupportsAllAndIsLowest ==
    pc = "app_done" =>
        /\ display.best # <<>> =>
               /\ display.shown = "recommendation"
               /\ display.best[1] \in Range(all_regions_data)
               /\ C29_SupportsAll(display.best[1])
               /\ \A k \in DOMAIN all_regions_data :
                      all_regions_data[k].unavailable_services = <<>> =>
                          display.best[1].sustainability_score
                              <= all_regions_data[k].sustainability_score
        /\ (\A k \in DOMAIN all_regions_data :
                all_regions_data[k].unavailable_services # <<>>)
               => (display.best = <<>> /\ display.shown # "recommendation")

\* Two regions analysed, both support all services, and the one analysed
\* last has the lower score.
C29_Witness ==
    /\ pc = "app_done"
    /\ display.shown = "recommendation"
    /\ Len(all_regions_data) = 2
    /\ Len(display.filtered_options) = 2
    /\ display.best[1] = all_regions_data[2]
    /\ all_regions_data[2].sustainability_score
           < all_regions_data[1].sustainability_score

\* --------------------------------------------------------------------- C30
\* C30: when the intensity request fails for one selected region, the
\* analysis still ends with stored and displayed results that hold every
\* other selected region of the catalog.
C30_IntensityFailureKeepsOthers ==
    (pc = "app_done" /\ \E c \in Range(region_codes) : intensity[c].status = "failed") =>
        /\ session_state.stored
        /\ session_state.show_results
        /\ display.shown \in {"recommendation", "warning"}
        /\ \A k \in DOMAIN region_codes :
               (/\ region_codes[k] \in {regions[m].code : m \in DOMAIN regions}
                /\ intensity[region_codes[k]].status # "failed")
               => \E m \in DOMAIN session_state.analysis_results :
                      session_state.analysis_results[m].region_code = region_codes[k]

====
